---- MODULE Spec2Model ----
(***************************************************************************)
(* Model of Bulk_Sync.py: a resumable bulk copy of the objects of a source *)
(* bucket to a destination bucket.  One process runs main(): it lists the  *)
(* source, submits process_object for every name to a thread pool,         *)
(* collects the results and saves the state mapping to a JSON file.  The   *)
(* model covers several consecutive runs of the process over one state     *)
(* file, with crashes and an operator interruption.                        *)
(***************************************************************************)
EXTENDS Integers, Sequences, FiniteSets, TLC

\* ---- configuration of the program, scaled down for model checking ----
\* MAX_WORKERS = 50 and MAX_RETRIES = 5 in the source (lines 35-36); the
\* model keeps their role and uses small values.
MAX_WORKERS == 2
MAX_RETRIES == 2

\* ---- bounds of the model ----
NumObjects == 3      \* objects in the source bucket, one run of the process
MaxRuns == 3         \* consecutive runs of the process over one state file
MaxPage == 2         \* names the provider returns per listing page

\* consecutive runs are explored with one object per pool thread
RunObjects == MAX_WORKERS

\* a pool thread per work item, whatever max_workers says
OnePerTask == NumObjects

\* ThreadPoolExecutor(max_workers=MAX_WORKERS): the threads the pool may start
PoolSize == MAX_WORKERS

Names == 1..NumObjects
Workers == 1..PoolSize
MainThread == 0
NoThread == -1
NoObject == 0

VARIABLES
  source,       \* the source bucket holds the names 1..source
  run,          \* number of the current run of the process
  mainpc,       \* position of the main thread
  state,        \* the global dict 'state': object name -> record
  file,         \* content of STATE_FILE
  tmp,          \* content of STATE_FILE + ".tmp"
  lock,         \* holder of the global threading.Lock
  dest,         \* names that exist in the destination bucket
  next_start,   \* listing: index of the next page to request (0: none)
  all_objects,  \* listing: the names collected so far
  fut,          \* per name: state of its future
  queue,        \* work items submitted and not yet taken by a pool thread
  wpc,          \* per pool thread: position inside process_object
  wobj,         \* per pool thread: the object_name it processes
  attempt,      \* per pool thread: loop variable of the copy loop
  collected,    \* names whose future as_completed has yielded
  interrupted,  \* a KeyboardInterrupt was raised in the main thread
  sub_i,        \* main: names of all_objects submitted so far
  savepc,       \* main: position inside save_state
  tried,        \* main: the try block at line 198 was entered
  summary,      \* the DONE/FAILED counts printed at the end of main
  \* history of the current run
  loaded,       \* the mapping load_state returned
  probes,       \* per name: head_object calls issued in this run
  head,         \* per name: status of the last head_object answer (0: none)
  copies,       \* per name: copy_object calls issued in this run
  writes,       \* per name: assignments to state[name] in this run
  submits,      \* per name: executor.submit calls in this run
  saves,        \* completed save_state calls in this run
  sleeps,       \* per name: the time.sleep durations of this run, in order
  \* history over all runs
  totalCopies,  \* per name: copy_object calls issued over all runs
  neverFound    \* per name: every probe so far answered 404 and no copy succeeded

vars == <<source, run, mainpc, state, file, tmp, lock, dest, next_start, all_objects,
          fut, queue, wpc, wobj, attempt, collected, interrupted, sub_i,
          savepc, tried, summary, loaded, probes, head, copies, writes, submits, saves, sleeps, totalCopies, neverFound>>

mainVars == <<mainpc, next_start, all_objects, collected, interrupted, sub_i,
              savepc, tried, summary>>
fileVars == <<file, tmp>>
workerVars == <<wpc, wobj, attempt>>
histVars == <<loaded, probes, head, copies, writes, submits, saves, sleeps,
             totalCopies, neverFound>>

\* ---------------------------------------------------------------------
\* Records and dict access
\* ---------------------------------------------------------------------
EmptyRec == [k \in {} |-> 0]                 \* the dict {}
BadRec == [malformed |-> TRUE]               \* a JSON value that is no object
DoneRec(r) == [status |-> "DONE", retries |-> r]
FailedRec(r, e) == [status |-> "FAILED", retries |-> r, error |-> e]

\* str(e): the text of the exception of the probe, of copy attempt a
HeadError == <<"head", 0>>
CopyError(a) == <<"copy", a>>

IsMapping(rec) == "malformed" \notin DOMAIN rec

\* dict.get(key, default)
Get(rec, key, default) == IF key \in DOMAIN rec THEN rec[key] ELSE default

\* state.get(object_name, {})
StateGet(s, n) == IF n \in DOMAIN s THEN s[n] ELSE EmptyRec

\* the mapping is replaced by one that holds the new record alone
StateReplace(s, n, rec) == (n :> rec)

\* state[object_name] = rec
StateSet(s, n, rec) == (n :> rec) @@ s

EmptyState == [n \in {} |-> EmptyRec]

\* ---------------------------------------------------------------------
\* Files
\* ---------------------------------------------------------------------
NoFile == [exists |-> FALSE, complete |-> FALSE, data |-> EmptyState]
FullFile(s) == [exists |-> TRUE, complete |-> TRUE, data |-> s]
\* a file opened with mode "w" and not yet completely written
OpenedFile == [exists |-> TRUE, complete |-> FALSE, data |-> EmptyState]

\* load_state(): the mapping of STATE_FILE, {} when there is no file
load_state(f) == IF f.exists THEN f.data ELSE EmptyState

\* json.load raises on a file that does not hold a complete document
Loadable(f) == ~f.exists \/ f.complete

\* ---------------------------------------------------------------------
\* Listing of the source bucket
\* ---------------------------------------------------------------------
NumPages == IF source = 0 THEN 1 ELSE (source + MaxPage - 1) \div MaxPage

RECURSIVE Interval(_, _)
Interval(a, b) == IF a > b THEN <<>> ELSE <<a>> \o Interval(a + 1, b)

\* list_response.data.objects of page p
PageObjects(p) ==
  Interval((p - 1) * MaxPage + 1,
           IF p * MaxPage < source THEN p * MaxPage ELSE source)

\* list_response.data.next_start_with of page p (0: none)
PageNext(p) == IF p < NumPages THEN p + 1 ELSE 0

Range(seq) == {seq[i] : i \in 1..Len(seq)}

\* ---------------------------------------------------------------------
\* Start of a process: module level code up to the call of main()
\* ---------------------------------------------------------------------
Outcomes == {"SKIP_DONE", "SKIP_MAX", "SKIP_EXISTS", "HEAD_FAIL", "COPIED",
             "FAILED", "RAISED"}

\* the destination bucket before the first run: the even names are there
InitialDest == {n \in Names : n % 2 = 0}

ZeroCount == [n \in Names |-> 0]
NoSleeps == [n \in Names |-> <<>>]
NoSummary == [printed |-> FALSE, done |-> 0, failed |-> 0]

\* the first start of the process on a state file
Boot(f) ==
  /\ run = 1
  /\ file = f
  /\ tmp = NoFile
  /\ state = load_state(file)
  /\ loaded = load_state(file)
  /\ mainpc = "list"
  /\ lock = NoThread
  /\ dest = InitialDest
  /\ next_start = 0
  /\ all_objects = <<>>
  /\ fut = [n \in Names |-> "new"]
  /\ queue = <<>>
  /\ wpc = [w \in Workers |-> "idle"]
  /\ wobj = [w \in Workers |-> NoObject]
  /\ attempt = [w \in Workers |-> 0]
  /\ collected = {}
  /\ interrupted = FALSE
  /\ sub_i = 0
  /\ savepc = "idle"
  /\ tried = FALSE
  /\ summary = NoSummary
  /\ probes = ZeroCount
  /\ head = ZeroCount
  /\ copies = ZeroCount
  /\ writes = ZeroCount
  /\ submits = ZeroCount
  /\ saves = 0
  /\ sleeps = NoSleeps
  /\ totalCopies = ZeroCount
  /\ neverFound = [n \in Names |-> TRUE]

\* One run: no state file yet, or a file the operator wrote in which the
\* record of name 1 is no JSON object.
Init ==
  /\ source = NumObjects
  /\ \E f \in {NoFile, FullFile(1 :> BadRec)} : Boot(f)

\* Consecutive runs, the first one without a state file.
InitRuns ==
  /\ source = RunObjects
  /\ Boot(NoFile)

\* The process has ended; the operator starts it again on the same files.
\* a name of the bucket's past that the listing no longer returns
StaleName == NumObjects

\* Consecutive runs over a state file found in place: none, one the operator
\* wrote in which the record of name 1 is no JSON object, or one with the
\* record of an object that has left the source bucket.
InitFiles ==
  /\ source = RunObjects
  /\ \E f \in {NoFile, FullFile(1 :> BadRec), FullFile(StaleName :> DoneRec(0))} : Boot(f)

Ended == mainpc \in {"done", "raised", "crashed", "load_failed"}

Restart ==
  /\ Ended
  /\ run < MaxRuns
  /\ run' = run + 1
  /\ IF Loadable(file)
       THEN /\ state' = load_state(file)
            /\ mainpc' = "list"
       ELSE /\ state' = EmptyState
            /\ mainpc' = "load_failed"
  /\ loaded' = state'
  /\ lock' = NoThread
  /\ next_start' = 0
  /\ all_objects' = <<>>
  /\ fut' = [n \in Names |-> "new"]
  /\ queue' = <<>>
  /\ wpc' = [w \in Workers |-> "idle"]
  /\ wobj' = [w \in Workers |-> NoObject]
  /\ attempt' = [w \in Workers |-> 0]
  /\ collected' = {}
  /\ interrupted' = FALSE
  /\ sub_i' = 0
  /\ savepc' = "idle"
  /\ tried' = FALSE
  /\ summary' = NoSummary
  /\ probes' = ZeroCount
  /\ head' = ZeroCount
  /\ copies' = ZeroCount
  /\ writes' = ZeroCount
  /\ submits' = ZeroCount
  /\ saves' = 0
  /\ sleeps' = NoSleeps
  /\ UNCHANGED <<source, file, tmp, dest, totalCopies, neverFound>>

\* The process is killed inside save_state: memory and threads are gone, the
\* files stay as they are.
Crash ==
  /\ savepc # "idle"
  /\ mainpc' = "crashed"
  /\ state' = EmptyState
  /\ lock' = NoThread
  /\ next_start' = 0
  /\ all_objects' = <<>>
  /\ fut' = [n \in Names |-> "new"]
  /\ queue' = <<>>
  /\ wpc' = [w \in Workers |-> "idle"]
  /\ wobj' = [w \in Workers |-> NoObject]
  /\ attempt' = [w \in Workers |-> 0]
  /\ collected' = {}
  /\ interrupted' = FALSE
  /\ sub_i' = 0
  /\ savepc' = "idle"
  /\ tried' = FALSE
  /\ summary' = NoSummary
  /\ UNCHANGED <<source, run, file, tmp, dest>>
  /\ UNCHANGED histVars

\* ---------------------------------------------------------------------
\* main(): listing
\* ---------------------------------------------------------------------
\* the continuation token is not passed on
AlwaysFirstPage(ns) == 1

\* line 178, start=next_start: the page a request with this token returns
NextRequest(ns) == IF ns = 0 THEN 1 ELSE ns

ListPage ==
  /\ mainpc = "list"
  /\ LET p == NextRequest(next_start) IN
       /\ all_objects' = all_objects \o PageObjects(p)
       /\ IF PageNext(p) # 0
            THEN /\ next_start' = PageNext(p)
                 /\ mainpc' = "list"
            ELSE /\ next_start' = next_start
                 /\ mainpc' = "submit"
  /\ UNCHANGED <<source, run, state, lock, dest, fut, queue, collected, interrupted,
                 sub_i, savepc, tried, summary>>
  /\ UNCHANGED <<fileVars, workerVars, histVars>>

\* list_objects raises: main ends before the pool exists
ListFail ==
  /\ mainpc = "list"
  /\ mainpc' = "raised"
  /\ UNCHANGED <<source, run, state, lock, dest, next_start, all_objects, fut, queue,
                 collected, interrupted, sub_i, savepc, tried, summary>>
  /\ UNCHANGED <<fileVars, workerVars, histVars>>

\* ---------------------------------------------------------------------
\* main(): submission to the pool, and the pool
\* ---------------------------------------------------------------------
\* the name is handed to the pool twice
EnqueueTwice(q, n) == Append(Append(q, n), n)

\* line 195: executor.submit(process_object, obj_name) adds one work item
Enqueue(q, n) == Append(q, n)

Submit ==
  /\ mainpc = "submit"
  /\ sub_i < Len(all_objects)
  /\ LET n == all_objects[sub_i + 1] IN
       /\ fut' = [fut EXCEPT ![n] = "queued"]
       /\ queue' = Enqueue(queue, n)
       /\ submits' = [submits EXCEPT ![n] = @ + 1]
  /\ sub_i' = sub_i + 1
  /\ UNCHANGED <<source, run, mainpc, state, lock, dest, next_start, all_objects,
                 collected, interrupted, savepc, tried, summary>>
  /\ UNCHANGED <<fileVars, workerVars>>
  /\ UNCHANGED <<loaded, probes, head, copies, writes, saves, totalCopies, neverFound, sleeps>>

SubmitEnd ==
  /\ mainpc = "submit"
  /\ sub_i = Len(all_objects)
  /\ mainpc' = "collect"
  /\ tried' = TRUE
  /\ UNCHANGED <<source, run, state, lock, dest, next_start, all_objects, fut, queue,
                 collected, interrupted, sub_i, savepc, summary>>
  /\ UNCHANGED <<fileVars, workerVars, histVars>>

\* An idle thread of the pool takes the oldest work item.  Threads are
\* interchangeable: the lowest idle one takes it.
IdleWorkers == {w \in Workers : wpc[w] = "idle"}

Take(w) ==
  /\ queue # <<>>
  /\ w \in IdleWorkers
  /\ \A v \in IdleWorkers : w <= v
  /\ wobj' = [wobj EXCEPT ![w] = Head(queue)]
  /\ wpc' = [wpc EXCEPT ![w] = "start"]
  /\ attempt' = [attempt EXCEPT ![w] = 0]
  /\ fut' = [fut EXCEPT ![Head(queue)] = "running"]
  /\ queue' = Tail(queue)
  /\ UNCHANGED <<source, run, state, lock, dest>>
  /\ UNCHANGED <<mainVars, fileVars, histVars>>

\* ---------------------------------------------------------------------
\* process_object(object_name), run by pool thread w
\* ---------------------------------------------------------------------
\* a pool thread whose task failed is lost to the pool
ReturnOrDie(w, result) ==
  /\ fut' = [fut EXCEPT ![wobj[w]] = result]
  /\ wpc' = [wpc EXCEPT ![w] =
               IF result \in {"HEAD_FAIL", "FAILED", "RAISED"} THEN "dead" ELSE "idle"]
  /\ wobj' = [wobj EXCEPT ![w] = NoObject]
  /\ attempt' = [attempt EXCEPT ![w] = 0]

\* the future of w's object gets its result and w goes back to the pool
Return(w, result) ==
  /\ fut' = [fut EXCEPT ![wobj[w]] = result]
  /\ wpc' = [wpc EXCEPT ![w] = "idle"]
  /\ wobj' = [wobj EXCEPT ![w] = NoObject]
  /\ attempt' = [attempt EXCEPT ![w] = 0]

\* 'with lock:' entered, at the five places of process_object
LockedPc(pc) ==
  CASE pc = "start" -> "check"
    [] pc = "probe_found" -> "set_exists"
    [] pc = "probe_err" -> "set_headfail"
    [] pc = "copy_ok" -> "set_done"
    [] pc = "copy_failed" -> "set_failed"

WantsLock(pc) == pc \in {"start", "probe_found", "probe_err", "copy_ok", "copy_failed"}

\* 'with lock:' lets every thread in
LockIgnored(t) == TRUE

\* threading.Lock.acquire: blocks while another thread holds the lock
CanAcquire(t) == lock = NoThread

Acquire(w) ==
  /\ WantsLock(wpc[w])
  /\ CanAcquire(w)
  /\ lock' = w
  /\ wpc' = [wpc EXCEPT ![w] = LockedPc(wpc[w])]
  /\ UNCHANGED <<source, run, state, dest, fut, queue, wobj, attempt>>
  /\ UNCHANGED <<mainVars, fileVars, histVars>>

\* the lock is still held when the block is left
KeepsLock(w) == w

\* the holder of the lock once a 'with lock:' block of process_object is left
Released(w) == NoThread

\* the prior record is not consulted
NeverSkipDone(rec) == FALSE
NeverSkipMax(rec) == FALSE
\* the retries are compared with > instead of >=
SkipMaxStrict(rec) ==
  /\ Get(rec, "status", "None") = "FAILED"
  /\ Get(rec, "retries", 0) > MAX_RETRIES

\* lines 125 and 127: the two skip conditions on the prior record
SkipDone(rec) == Get(rec, "status", "None") = "DONE"
SkipMax(rec) ==
  /\ Get(rec, "status", "None") = "FAILED"
  /\ Get(rec, "retries", 0) >= MAX_RETRIES

\* the count over all runs stops at MaxCounted
MaxCounted == MAX_RETRIES + 1
Counted(c) == IF c < MaxCounted THEN c + 1 ELSE c

\* lines 122-128, then the call of object_in_destination at line 132
Check(w) ==
  /\ wpc[w] = "check"
  /\ lock' = Released(w)
  /\ LET n == wobj[w]
         obj_state == StateGet(state, n) IN
       IF ~IsMapping(obj_state)
         THEN \* obj_state.get raises AttributeError, nothing catches it
              /\ Return(w, "RAISED")
              /\ UNCHANGED probes
         ELSE IF SkipDone(obj_state)
         THEN /\ Return(w, "SKIP_DONE")
              /\ UNCHANGED probes
         ELSE IF SkipMax(obj_state)
         THEN /\ Return(w, "SKIP_MAX")
              /\ UNCHANGED probes
         ELSE /\ wpc' = [wpc EXCEPT ![w] = "probing"]
              /\ probes' = [probes EXCEPT ![n] = @ + 1]
              /\ UNCHANGED <<fut, wobj, attempt>>
  /\ UNCHANGED <<source, run, state, dest, queue>>
  /\ UNCHANGED <<mainVars, fileVars>>
  /\ UNCHANGED <<loaded, head, copies, writes, submits, saves, totalCopies, neverFound, sleeps>>

\* head_object answers: the object's metadata (200), not found (404), or
\* any other service error (here 503)
HeadResponses(n) == IF n \in dest THEN {200, 503} ELSE {404, 503}

\* every error of head_object is taken for "not found"
ErrorsAsAbsent(status) == IF status = 200 THEN "True" ELSE "False"

\* object_in_destination, lines 85-96
object_in_destination(status) ==
  IF status = 200 THEN "True"
  ELSE IF status = 404 THEN "False"
  ELSE "raise"

\* the loop gives up one attempt early
StopsEarly == MAX_RETRIES - 2

\* range(MAX_RETRIES): the attempts of the copy loop
LastAttempt == MAX_RETRIES - 1

\* return of object_in_destination; on False the first copy call is issued
ProbeReturn(w) ==
  /\ wpc[w] = "probing"
  /\ \E status \in HeadResponses(wobj[w]) :
       LET n == wobj[w]
           r == object_in_destination(status) IN
         /\ neverFound' = [neverFound EXCEPT ![n] = @ /\ status = 404]
         /\ head' = [head EXCEPT ![n] = status]
         /\ IF r = "True"
              THEN /\ wpc' = [wpc EXCEPT ![w] = "probe_found"]
                   /\ UNCHANGED <<attempt, copies, totalCopies>>
              ELSE IF r = "False"
              THEN /\ wpc' = [wpc EXCEPT ![w] = "copying"]
                   /\ attempt' = [attempt EXCEPT ![w] = 0]
                   /\ copies' = [copies EXCEPT ![n] = @ + 1]
                   /\ totalCopies' = [totalCopies EXCEPT ![n] = Counted(@)]
              ELSE /\ wpc' = [wpc EXCEPT ![w] = "probe_err"]
                   /\ UNCHANGED <<attempt, copies, totalCopies>>
  /\ UNCHANGED <<source, run, state, lock, dest, fut, queue, wobj>>
  /\ UNCHANGED <<mainVars, fileVars>>
  /\ UNCHANGED <<loaded, probes, writes, submits, saves, sleeps>>

\* lines 133-135
SetExists(w) ==
  /\ wpc[w] = "set_exists"
  /\ state' = StateSet(state, wobj[w], DoneRec(0))
  /\ writes' = [writes EXCEPT ![wobj[w]] = @ + 1]
  /\ lock' = Released(w)
  /\ Return(w, "SKIP_EXISTS")
  /\ UNCHANGED <<source, run, dest, queue>>
  /\ UNCHANGED <<mainVars, fileVars>>
  /\ UNCHANGED <<loaded, probes, head, copies, submits, saves, totalCopies, neverFound, sleeps>>

\* a failed run is charged all its attempts and one more
Overcharged(rec) == Get(rec, "retries", 0) + MAX_RETRIES + 1

\* lines 139 and 158: retries = obj_state.get("retries", 0) + 1
NextRetries(rec) == Get(rec, "retries", 0) + 1

\* lines 137-141
SetHeadFail(w) ==
  /\ wpc[w] = "set_headfail"
  /\ LET obj_state == StateGet(state, wobj[w]) IN
       state' = StateSet(state, wobj[w], FailedRec(NextRetries(obj_state), HeadError))
  /\ writes' = [writes EXCEPT ![wobj[w]] = @ + 1]
  /\ lock' = Released(w)
  /\ Return(w, "HEAD_FAIL")
  /\ UNCHANGED <<source, run, dest, queue>>
  /\ UNCHANGED <<mainVars, fileVars>>
  /\ UNCHANGED <<loaded, probes, head, copies, submits, saves, totalCopies, neverFound, sleeps>>

\* line 153: the backoff after the failure of attempt a, in time units
BackoffDelay(a) == 1 + a

\* return of copy_object_server_side, line 146: accepted, or an exception
CopyReturn(w) ==
  /\ wpc[w] = "copying"
  /\ \E ok \in BOOLEAN :
       IF ok
         THEN /\ dest' = dest \cup {wobj[w]}
              /\ wpc' = [wpc EXCEPT ![w] = "copy_ok"]
              /\ neverFound' = [neverFound EXCEPT ![wobj[w]] = FALSE]
              /\ sleeps' = sleeps
         ELSE \* line 153: time.sleep(1.0 + attempt) is entered
              /\ dest' = dest
              /\ wpc' = [wpc EXCEPT ![w] = "backoff"]
              /\ neverFound' = neverFound
              /\ sleeps' = [sleeps EXCEPT ![wobj[w]] = Append(@, BackoffDelay(attempt[w]))]
  /\ UNCHANGED <<source, run, state, lock, fut, queue, wobj, attempt>>
  /\ UNCHANGED <<mainVars, fileVars>>
  /\ UNCHANGED <<loaded, probes, head, copies, writes, submits, saves, totalCopies>>

\* lines 153-154: the sleep ends; the last attempt goes on to record the
\* failure, any other attempt to the next copy call
Backoff(w) ==
  /\ wpc[w] = "backoff"
  /\ IF attempt[w] = LastAttempt
       THEN /\ wpc' = [wpc EXCEPT ![w] = "copy_failed"]
            /\ UNCHANGED <<attempt, copies, totalCopies>>
       ELSE /\ wpc' = [wpc EXCEPT ![w] = "copying"]
            /\ attempt' = [attempt EXCEPT ![w] = @ + 1]
            /\ copies' = [copies EXCEPT ![wobj[w]] = @ + 1]
            /\ totalCopies' = [totalCopies EXCEPT ![wobj[w]] = Counted(@)]
  /\ UNCHANGED <<source, run, state, lock, dest, fut, queue, wobj>>
  /\ UNCHANGED <<mainVars, fileVars>>
  /\ UNCHANGED <<loaded, probes, head, writes, submits, saves, neverFound, sleeps>>

\* the attempts are counted from 1
AttemptsFromOne(a) == a + 1

\* line 149: "retries": attempt
CopiedRetries(a) == a

\* lines 148-150
SetDone(w) ==
  /\ wpc[w] = "set_done"
  /\ state' = StateSet(state, wobj[w], DoneRec(CopiedRetries(attempt[w])))
  /\ writes' = [writes EXCEPT ![wobj[w]] = @ + 1]
  /\ lock' = Released(w)
  /\ Return(w, "COPIED")
  /\ UNCHANGED <<source, run, dest, queue>>
  /\ UNCHANGED <<mainVars, fileVars>>
  /\ UNCHANGED <<loaded, probes, head, copies, submits, saves, totalCopies, neverFound, sleeps>>

\* lines 156-160
SetFailed(w) ==
  /\ wpc[w] = "set_failed"
  /\ LET old_state == StateGet(state, wobj[w]) IN
       state' = StateSet(state, wobj[w], FailedRec(NextRetries(old_state), CopyError(attempt[w])))
  /\ writes' = [writes EXCEPT ![wobj[w]] = @ + 1]
  /\ lock' = Released(w)
  /\ Return(w, "FAILED")
  /\ UNCHANGED <<source, run, dest, queue>>
  /\ UNCHANGED <<mainVars, fileVars>>
  /\ UNCHANGED <<loaded, probes, head, copies, submits, saves, totalCopies, neverFound, sleeps>>

\* ---------------------------------------------------------------------
\* main(): collecting the results, lines 198-206
\* ---------------------------------------------------------------------
Completed(n) == fut[n] \in Outcomes

\* the exception of a task leaves the loop
Propagates(result) == IF result = "RAISED" THEN "finally" ELSE "collect"

\* lines 201-206: where main goes after future.result() returned or raised
CollectTarget(result) == "collect"

\* as_completed yields a completed future; result() returns the string, or
\* raises the task's exception, which 'except Exception' catches and prints
Collect(n) ==
  /\ mainpc = "collect"
  /\ n \in Range(all_objects) \ collected
  /\ Completed(n)
  /\ collected' = collected \cup {n}
  /\ mainpc' = CollectTarget(fut[n])
  /\ UNCHANGED <<source, run, state, lock, dest, next_start, all_objects, fut,
                 queue, interrupted, sub_i, savepc, tried, summary>>
  /\ UNCHANGED <<fileVars, workerVars, histVars>>

\* as_completed is exhausted: on to the finally block
CollectEnd ==
  /\ mainpc = "collect"
  /\ collected = Range(all_objects)
  /\ mainpc' = "finally"
  /\ UNCHANGED <<source, run, state, lock, dest, next_start, all_objects, fut, queue,
                 collected, interrupted, sub_i, savepc, tried, summary>>
  /\ UNCHANGED <<fileVars, workerVars, histVars>>

\* no 'finally': the interrupt leaves the 'with' block at once
SkipsFinally(pc) == "shutdown"

\* where a KeyboardInterrupt raised in the main thread takes it: out of the
\* try block through 'finally' (line 207), or, while submitting, straight to
\* the exit of the 'with ThreadPoolExecutor' block
InterruptTarget(pc) == IF pc = "collect" THEN "finally" ELSE "shutdown"

Interrupt ==
  /\ mainpc \in {"submit", "collect"}
  /\ ~interrupted
  /\ interrupted' = TRUE
  /\ mainpc' = InterruptTarget(mainpc)
  /\ UNCHANGED <<source, run, state, lock, dest, next_start, all_objects, fut, queue,
                 collected, sub_i, savepc, tried, summary>>
  /\ UNCHANGED <<fileVars, workerVars, histVars>>

\* 'with lock:' at line 209 (finally) and at line 215 (final save)
MainAcquire ==
  /\ mainpc \in {"finally", "final"}
  /\ CanAcquire(MainThread)
  /\ lock' = MainThread
  /\ mainpc' = IF mainpc = "finally" THEN "finally_save" ELSE "final_save"
  /\ savepc' = "call"
  /\ UNCHANGED <<tried, source, run, state, dest, next_start, all_objects, fut, queue,
                 collected, interrupted, sub_i, summary>>
  /\ UNCHANGED <<fileVars, workerVars, histVars>>

\* ---------------------------------------------------------------------
\* save_state(state), lines 71-75
\* ---------------------------------------------------------------------
\* the mapping is written straight to STATE_FILE
WritesFinal == FALSE

\* the path that open(..., "w") at line 73 truncates and json.dump fills
WritesTmp == TRUE

\* line 73: open(tmp_file, "w") creates or truncates the temporary file
SaveOpen ==
  /\ savepc = "call"
  /\ IF WritesTmp
       THEN /\ tmp' = OpenedFile
            /\ file' = file
       ELSE /\ file' = OpenedFile
            /\ tmp' = tmp
  /\ savepc' = "opened"
  /\ UNCHANGED <<tried, source, run, mainpc, state, lock, dest, next_start, all_objects, fut,
                 queue, collected, interrupted, sub_i, summary>>
  /\ UNCHANGED <<workerVars, histVars>>

\* line 74 and the end of the 'with open': the whole mapping is in the file
SaveDump ==
  /\ savepc = "opened"
  /\ IF WritesTmp
       THEN /\ tmp' = FullFile(state)
            /\ file' = file
       ELSE /\ file' = FullFile(state)
            /\ tmp' = tmp
  /\ savepc' = "written"
  /\ UNCHANGED <<tried, source, run, mainpc, state, lock, dest, next_start, all_objects, fut,
                 queue, collected, interrupted, sub_i, summary>>
  /\ UNCHANGED <<workerVars, histVars>>

\* line 75: os.rename(tmp_file, STATE_FILE)
SaveRename ==
  /\ savepc = "written"
  /\ IF WritesTmp
       THEN /\ file' = tmp
            /\ tmp' = NoFile
       ELSE UNCHANGED <<file, tmp>>
  /\ savepc' = "renamed"
  /\ saves' = saves + 1
  /\ UNCHANGED <<tried, source, run, mainpc, state, lock, dest, next_start, all_objects, fut,
                 queue, collected, interrupted, sub_i, summary>>
  /\ UNCHANGED workerVars
  /\ UNCHANGED <<loaded, probes, head, copies, writes, submits, totalCopies, neverFound, sleeps>>

\* save_state returned; the 'with lock:' block around it is left
SaveReturn ==
  /\ savepc = "renamed"
  /\ savepc' = "idle"
  /\ lock' = NoThread
  /\ mainpc' = IF mainpc = "finally_save" THEN "shutdown" ELSE "summary"
  /\ UNCHANGED <<tried, source, run, state, dest, next_start, all_objects, fut, queue,
                 collected, interrupted, sub_i, summary>>
  /\ UNCHANGED <<fileVars, workerVars, histVars>>

\* ---------------------------------------------------------------------
\* main(): end of the 'with ThreadPoolExecutor' block and the summary
\* ---------------------------------------------------------------------
PoolQuiet == queue = <<>> /\ \A w \in Workers : wpc[w] = "idle"

\* executor.__exit__ is shutdown(wait=True): it returns when every submitted
\* work item has run; then a pending KeyboardInterrupt leaves main
Shutdown ==
  /\ mainpc = "shutdown"
  /\ PoolQuiet
  /\ mainpc' = IF interrupted THEN "raised" ELSE "final"
  /\ UNCHANGED <<source, run, state, lock, dest, next_start, all_objects, fut, queue,
                 collected, interrupted, sub_i, savepc, tried, summary>>
  /\ UNCHANGED <<fileVars, workerVars, histVars>>

CountStatus(s, st) == Cardinality({n \in DOMAIN s : s[n].status = st})

\* lines 218-220; s["status"] raises on a record that is no mapping
Summary ==
  /\ mainpc = "summary"
  /\ IF \A n \in DOMAIN state : IsMapping(state[n])
       THEN /\ summary' = [printed |-> TRUE,
                           done |-> CountStatus(state, "DONE"),
                           failed |-> CountStatus(state, "FAILED")]
            /\ mainpc' = "done"
       ELSE /\ summary' = summary
            /\ mainpc' = "raised"
  /\ UNCHANGED <<source, run, state, lock, dest, next_start, all_objects, fut, queue,
                 collected, interrupted, sub_i, savepc, tried>>
  /\ UNCHANGED <<fileVars, workerVars, histVars>>

\* ---------------------------------------------------------------------
Work ==
  \/ ListPage
  \/ Submit
  \/ SubmitEnd
  \/ \E w \in Workers : Take(w)
  \/ \E w \in Workers : Acquire(w)
  \/ \E w \in Workers : Check(w)
  \/ \E w \in Workers : ProbeReturn(w)
  \/ \E w \in Workers : SetExists(w)
  \/ \E w \in Workers : SetHeadFail(w)
  \/ \E w \in Workers : CopyReturn(w)
  \/ \E w \in Workers : Backoff(w)
  \/ \E w \in Workers : SetDone(w)
  \/ \E w \in Workers : SetFailed(w)
  \/ \E n \in Names : Collect(n)
  \/ CollectEnd
  \/ MainAcquire
  \/ SaveOpen
  \/ SaveDump
  \/ SaveRename
  \/ SaveReturn
  \/ Shutdown
  \/ Summary

\* what the environment does to a run: a failed listing, an interruption
\* by the operator, a kill
Step ==
  \/ Work
  \/ ListFail
  \/ Interrupt
  \/ Crash

Next ==
  \/ Step
  \/ Restart

NextClean ==
  \/ Work
  \/ Restart

\* one run of the process
Spec == Init /\ [][Step]_vars

\* consecutive runs of the process over one state file
SpecRuns == InitRuns /\ [][Next]_vars

\* consecutive runs, none of them interrupted, killed or without a listing
SpecClean == InitRuns /\ [][NextClean]_vars

\* consecutive runs over a state file found in place
SpecFiles == InitFiles /\ [][Next]_vars

\* one uninterrupted run in which the listing answers, every thread that can
\* take a step is scheduled in the end and every remote call returns
SpecLive == Init /\ [][Work]_vars /\ WF_vars(Work)

\* =====================================================================
\* Properties
\* =====================================================================
Listed == 1..source

StatusOf(rec) == Get(rec, "status", "None")
RetriesOf(rec) == Get(rec, "retries", 0)
IsDone(rec) == IsMapping(rec) /\ StatusOf(rec) = "DONE"
IsExhausted(rec) ==
  IsMapping(rec) /\ StatusOf(rec) = "FAILED" /\ RetriesOf(rec) >= MAX_RETRIES

\* C1: an object whose probes all answered not-found and whose copy never
\* succeeded has had at most MAX_RETRIES copy calls, over all runs, for as
\* long as its record is not FAILED with retries >= MAX_RETRIES.
C1_RetryBound ==
  \A n \in Names :
    (neverFound[n] /\ ~IsExhausted(StateGet(state, n)))
      => totalCopies[n] <= MAX_RETRIES

\* the record the run loaded for n, {} when there is none
Prior(n) == StateGet(loaded, n)

\* C2: a probe answered 404 is followed by a copy call; a probe that failed
\* with another error is followed by no copy call for the object in this
\* run, and the task ends as HEAD FAIL with the record FAILED, retries one
\* more than before, and the error of the probe.
C2_NotFoundVsError ==
  \A n \in Names :
    /\ head[n] = 404 => copies[n] >= 1
    /\ head[n] \notin {0, 200, 404} =>
         /\ copies[n] = 0
         /\ Completed(n) =>
              /\ fut[n] = "HEAD_FAIL"
              /\ state[n] = FailedRec(RetriesOf(Prior(n)) + 1, HeadError)

C2_Witness ==
  \E n, m \in Names :
    /\ head[n] = 503 /\ fut[n] = "HEAD_FAIL" /\ RetriesOf(Prior(n)) = 1
    /\ state[n].retries = 2
    /\ head[m] = 404 /\ copies[m] >= 1

\* the run has left the 'with ThreadPoolExecutor' block after the try block
PoolLeft ==
  tried /\ mainpc \in {"final", "final_save", "summary", "done", "raised"}

\* C3: an object loaded as DONE is neither probed nor copied and keeps its
\* record; a listed object without a record has been probed by the time
\* the pool is left.
C3_Resumability ==
  /\ \A n \in Names :
       IsDone(Prior(n)) =>
         /\ probes[n] = 0 /\ copies[n] = 0 /\ writes[n] = 0
         /\ mainpc # "crashed" => (n \in DOMAIN state /\ state[n] = loaded[n])
  /\ PoolLeft => \A n \in Listed : n \notin DOMAIN loaded => probes[n] = 1

C3_Witness ==
  /\ mainpc = "done"
  /\ \E n, m \in Listed :
       /\ IsDone(Prior(n)) /\ fut[n] = "SKIP_DONE" /\ probes[n] = 0
       /\ m \notin DOMAIN loaded /\ probes[m] = 1

Terminal(n) == Completed(n) /\ fut[n] # "RAISED"

\* C4 as claimed: an object that reached a terminal outcome had exactly one
\* assignment to its record in this run.
C4_ExactlyOneWrite == \A n \in Names : Terminal(n) => writes[n] = 1

\* C4 amended: at most one assignment per object and run; none for an
\* object skipped on its prior record (DONE, or FAILED with retries >=
\* MAX_RETRIES), exactly one for every other terminal outcome.
C4_AtMostOneWrite ==
  \A n \in Names :
    /\ writes[n] <= 1
    /\ Terminal(n) =>
         writes[n] = (IF IsDone(Prior(n)) \/ IsExhausted(Prior(n)) THEN 0 ELSE 1)

C4_Witness ==
  \E n, m \in Names :
    /\ Terminal(n) /\ IsExhausted(Prior(n)) /\ writes[n] = 0
    /\ Terminal(m) /\ fut[m] = "COPIED" /\ writes[m] = 1

Settled(rec) == IsDone(rec) \/ IsExhausted(rec)
AllRecorded == \A n \in Listed : n \in DOMAIN loaded
AllSettled == \A n \in Listed : n \in DOMAIN loaded /\ Settled(loaded[n])
SameCounts ==
  /\ summary.done = CountStatus(loaded, "DONE")
  /\ summary.failed = CountStatus(loaded, "FAILED")

\* C5 as claimed: a run over the state file of an earlier run that recorded
\* every listed object issues no copy call and ends with the DONE and
\* FAILED counts it started with.
C5_Idempotent ==
  (run >= 2 /\ AllRecorded) =>
    /\ \A n \in Listed : copies[n] = 0
    /\ mainpc = "done" => SameCounts

\* C5 amended: a later run issues no probe and no copy call for an object
\* whose record is DONE or FAILED with retries >= MAX_RETRIES, it resolves
\* by one of the two skips; when every listed object has such a record the
\* run ends with the DONE and FAILED counts it started with.
C5_IdempotentSettled ==
  run >= 2 =>
    /\ \A n \in Listed :
         Settled(Prior(n)) =>
           /\ probes[n] = 0 /\ copies[n] = 0
           /\ Completed(n) => fut[n] \in {"SKIP_DONE", "SKIP_MAX"}
    /\ (mainpc = "done" /\ AllSettled) => SameCounts

C5_Witness ==
  /\ run >= 2 /\ mainpc = "done" /\ AllSettled
  /\ summary.done >= 1 /\ summary.failed >= 1

\* C6: the file at the final path never holds an incomplete document and,
\* once there, never goes missing; the only step that changes it is the
\* rename at the end of save_state, which puts the complete new mapping
\* there.
C6_AtomicSave ==
  /\ file.exists => file.complete
  /\ [][ /\ file.exists => (file'.exists /\ file'.complete)
         /\ file' # file =>
              (savepc = "written" /\ savepc' = "renamed" /\ file' = FullFile(state))
     ]_vars

\* killed while the temporary file is half written, over an earlier good file
C6_Witness ==
  /\ mainpc = "crashed"
  /\ file.exists /\ file.complete
  /\ tmp.exists /\ ~tmp.complete

\* main has returned or let an exception through
Exited == mainpc \in {"done", "raised"}

\* C7: when main is left after the try block was entered, save_state has
\* been completed in this run; if no interruption occurred the state file
\* holds exactly the final mapping.
C7_PersistOnExit ==
  /\ (Exited /\ tried) => saves >= 1
  /\ (Exited /\ tried /\ ~interrupted) => file = FullFile(state)

\* an interrupted run in which a task had raised
C7_Witness ==
  /\ mainpc = "raised" /\ tried /\ interrupted /\ saves = 1
  /\ \E n \in Listed : fut[n] = "RAISED"

\* C8: once an interruption of the collection of results has been observed,
\* no task updates the mapping any more.
C8_NoUpdateAfterInterrupt ==
  [][(tried /\ interrupted /\ interrupted') => state' = state]_vars

InRemote(w) == wpc[w] \in {"probing", "copying", "backoff"}
InCritical(w) ==
  wpc[w] \in {"check", "set_exists", "set_headfail", "set_done", "set_failed"}
MainInCritical == savepc # "idle"

\* C9: a pool thread inside a remote call or a backoff sleep does not hold
\* the lock; a thread inside a 'with lock:' block holds it; at most one
\* thread is inside such a block.
C9_LockDiscipline ==
  /\ \A w \in Workers :
       /\ InRemote(w) => lock # w
       /\ InCritical(w) => lock = w
  /\ MainInCritical => lock = MainThread
  /\ Cardinality({w \in Workers : InCritical(w)})
       + (IF MainInCritical THEN 1 ELSE 0) <= 1

\* a remote call of one thread while another is inside its critical section
C9_Witness ==
  \E w, v \in Workers : w # v /\ wpc[w] = "copying" /\ InCritical(v) /\ lock = v

Running == {n \in Names : fut[n] = "running"}

\* C10: at most MAX_WORKERS invocations of process_object are running; no
\* name is submitted twice, and once the submission loop is over every
\* listed name has been submitted once.
C10_BoundedParallelism ==
  /\ Cardinality(Running) <= MAX_WORKERS
  /\ \A n \in Names : submits[n] <= 1
  /\ tried => \A n \in Listed : submits[n] = 1

\* the pool is full and a work item waits
C10_Witness ==
  /\ Cardinality(Running) = MAX_WORKERS
  /\ queue # <<>>
  /\ tried

\* ---------------------------------------------------------------------
\* Order of the remote calls made for one object
\* ---------------------------------------------------------------------
\* the workers with a copy call for n in flight
InFlight(n) == {w \in Workers : wpc[w] = "copying" /\ wobj[w] = n}

\* the backoffs slept after the failures of attempts 0 .. k-1
SleptThrough(k) == [i \in 1..k |-> BackoffDelay(i - 1)]

\* C11: for one object in a run, a copy call is issued only after its probe
\* returned not-found; attempt k+1 starts only when attempt k has failed and
\* its backoff is over; and no two copy calls for the same object are in
\* flight together, whatever the workers do in between.
C11_CausalOrder ==
  /\ [](\A n \in Names :
          /\ copies[n] >= 1 => head[n] = 404
          /\ Cardinality(InFlight(n)) <= 1
          /\ \A w \in InFlight(n) :
               /\ copies[n] = attempt[w] + 1
               /\ sleeps[n] = SleptThrough(attempt[w]))
  /\ [][\A n \in Names :
          copies'[n] # copies[n] =>
            /\ copies'[n] = copies[n] + 1
            /\ InFlight(n) = {}
            /\ \E w \in Workers :
                 /\ wobj[w] = n
                 /\ wpc'[w] = "copying"
                 /\ IF copies[n] = 0
                      THEN wpc[w] = "probing" /\ head'[n] = 404
                      ELSE /\ wpc[w] = "backoff"
                           /\ Len(sleeps[n]) = copies[n]
       ]_vars

\* a second attempt for one object in flight next to a copy of another one
C11_Witness ==
  \E w, v \in Workers :
    /\ w # v
    /\ wpc[w] = "copying" /\ attempt[w] = 1
    /\ wpc[v] = "copying" /\ wobj[v] # wobj[w]

\* ---------------------------------------------------------------------
\* Progress of an uninterrupted run
\* ---------------------------------------------------------------------
HasFailed(n) == fut[n] \in {"HEAD_FAIL", "FAILED", "RAISED"}

\* both save_state calls of main are over and its last statements are next
AtSummary == mainpc = "summary" /\ saves = 2 /\ \A n \in Listed : Completed(n)

\* C12: in an uninterrupted run whose remote calls all return, every listed
\* object reaches a terminal outcome and main reaches the final save and the
\* summary, whichever probes and copies fail; the failure of one object never
\* keeps another listed object from being processed.
C12_Progress ==
  /\ (mainpc = "list") ~> AtSummary
  /\ (mainpc = "list" /\ \A n \in DOMAIN state : IsMapping(state[n]))
        ~> (mainpc = "done" /\ summary.printed)
  /\ \A n, m \in Names :
       (HasFailed(n) /\ m \in Listed) ~> Completed(m)

\* the run has ended with its summary after a failed probe, a failed copy
\* loop and a successful copy
C12_Witness ==
  /\ mainpc = "done"
  /\ summary.printed
  /\ \E n, m, k \in Listed :
       fut[n] = "HEAD_FAIL" /\ fut[m] = "FAILED" /\ fut[k] = "COPIED"

\* ---------------------------------------------------------------------
\* Exhausted records
\* ---------------------------------------------------------------------
\* the record of n in a complete state file is that of an exhausted object
ExhaustedOnDisk(n) ==
  /\ file.exists /\ file.complete
  /\ n \in DOMAIN file.data
  /\ IsExhausted(file.data[n])

\* C13: a run that finds an object's record FAILED with retries >=
\* MAX_RETRIES issues no probe and no copy call for it and leaves the record
\* as it is, in the memory of a living process and in the state file, run
\* after run; and no record ever has retries above MAX_RETRIES.
C13_ExhaustedPermanent ==
  /\ [](\A n \in Names :
          /\ IsExhausted(Prior(n)) =>
               /\ probes[n] = 0 /\ copies[n] = 0 /\ writes[n] = 0
               /\ mainpc # "crashed" => StateGet(state, n) = Prior(n)
          /\ n \in DOMAIN state => RetriesOf(state[n]) <= MAX_RETRIES)
  /\ [][\A n \in Names :
          /\ ExhaustedOnDisk(n) =>
               (ExhaustedOnDisk(n)' /\ StateGet(file'.data, n) = StateGet(file.data, n))
          /\ (n \in DOMAIN state /\ IsExhausted(state[n]) /\ run' = run /\ mainpc' # "crashed") =>
               StateGet(state', n) = StateGet(state, n)
       ]_vars

\* a later run has skipped an object exhausted by the runs before it and has
\* saved its state again
C13_Witness ==
  \E n \in Listed :
    /\ fut[n] = "SKIP_MAX"
    /\ IsExhausted(Prior(n))
    /\ saves >= 1
    /\ ExhaustedOnDisk(n)

\* ---------------------------------------------------------------------
\* Result of the copy loop
\* ---------------------------------------------------------------------
\* backoffs of 1, 2, .. k time units, in this order
Backoffs(k) == [i \in 1..k |-> i]

\* C14: after a not-found probe, a task whose copy attempts all fail has
\* made exactly MAX_RETRIES copy calls, each followed by a backoff of
\* 1 + attempt (the last one too), and records FAILED with the previous
\* retries plus 1 and the last error; a task whose attempt k succeeds has
\* made exactly k+1 copy calls and records DONE with retries k, no error.
C14_CopyLoopResult ==
  \A n \in Names :
    /\ fut[n] = "FAILED" =>
         /\ head[n] = 404
         /\ copies[n] = MAX_RETRIES
         /\ sleeps[n] = Backoffs(MAX_RETRIES)
         /\ state[n] = [status |-> "FAILED",
                        retries |-> RetriesOf(Prior(n)) + 1,
                        error |-> CopyError(MAX_RETRIES - 1)]
    /\ fut[n] = "COPIED" =>
         /\ head[n] = 404
         /\ copies[n] \in 1..MAX_RETRIES
         /\ sleeps[n] = Backoffs(copies[n] - 1)
         /\ state[n] = [status |-> "DONE", retries |-> copies[n] - 1]
         /\ n \in dest
    /\ (head[n] = 404 /\ Completed(n)) =>
         /\ fut[n] \in {"FAILED", "COPIED"}
         /\ fut[n] = "FAILED" <=> Len(sleeps[n]) = MAX_RETRIES

\* the copy loop has failed again in the run after a run in which it failed
C14_Witness ==
  \E n \in Listed :
    /\ fut[n] = "FAILED"
    /\ Prior(n) = FailedRec(1, CopyError(MAX_RETRIES - 1))
    /\ state[n].retries = 2
    /\ sleeps[n] = <<1, 2>>

\* ---------------------------------------------------------------------
\* A run without faults
\* ---------------------------------------------------------------------
\* the run started from an empty state and no probe and no copy has failed
FaultFree ==
  /\ loaded = EmptyState
  /\ \A n \in Listed : head[n] \in {200, 404} /\ sleeps[n] = <<>>

\* C15: a run from an empty state in which no probe and no copy fails ends
\* with every listed object recorded DONE with retries 0, exactly one copy
\* call for each object that was absent at the destination and none for an
\* object present there, and the summary DONE = listed objects, FAILED = 0.
C15_FaultFreeRun ==
  (mainpc = "done" /\ FaultFree) =>
    /\ DOMAIN state = Listed
    /\ \A n \in Listed :
         /\ state[n] = [status |-> "DONE", retries |-> 0]
         /\ copies[n] = IF n \in InitialDest THEN 0 ELSE 1
         /\ probes[n] = 1
    /\ summary = [printed |-> TRUE, done |-> source, failed |-> 0]

\* such a run has ended, with objects copied and objects found in place
C15_Witness ==
  /\ mainpc = "done"
  /\ FaultFree
  /\ summary.done = NumObjects
  /\ \E n, m \in Listed : fut[n] = "COPIED" /\ fut[m] = "SKIP_EXISTS"

\* ---------------------------------------------------------------------
\* The retries field
\* ---------------------------------------------------------------------
\* C16: after any sequence of runs, the retries of an object's record is
\* the number of copy attempts consumed for it so far. Stated for the
\* objects whose probes all answered not-found and whose copy never
\* succeeded, where every copy call made is an attempt consumed.
C16_RetriesCountAttempts ==
  \A n \in Names :
    (neverFound[n] /\ Completed(n) /\ n \in DOMAIN state /\ IsMapping(state[n])) =>
      RetriesOf(state[n]) = totalCopies[n]

\* ---------------------------------------------------------------------
\* What save_state serializes
\* ---------------------------------------------------------------------
\* a complete SyncRecord
WellFormed(rec) ==
  /\ IsMapping(rec)
  /\ "status" \in DOMAIN rec /\ rec.status \in {"DONE", "FAILED"}
  /\ "retries" \in DOMAIN rec /\ rec.retries \in Nat
  /\ DOMAIN rec \subseteq {"status", "retries", "error"}
  /\ "error" \in DOMAIN rec <=> rec.status = "FAILED"

AllWellFormed(s) == \A n \in DOMAIN s : WellFormed(s[n])

\* save_state is between its call and its return
Saving == savepc # "idle"

\* C17: from a well-formed loaded state, save_state runs with the state lock
\* held by main, the mapping does not change while it is being written, what
\* is written is the mapping as it stands, and every record of the mapping,
\* of the temporary file and of the state file is complete: status DONE or
\* FAILED, retries a non-negative integer, error present exactly when FAILED.
C17_NoTornRecord ==
  /\ [](/\ Saving => lock = MainThread
        /\ AllWellFormed(state)
        /\ tmp.complete => AllWellFormed(tmp.data)
        /\ file.complete => AllWellFormed(file.data)
        /\ savepc = "written" => tmp = FullFile(state))
  /\ [][(Saving /\ mainpc' # "crashed") => state' = state]_vars

\* the mapping, a FAILED record in it, is on disk in the temporary file
\* while a worker is in a remote call
C17_Witness ==
  /\ savepc = "written"
  /\ \E n \in DOMAIN tmp.data : tmp.data[n].status = "FAILED"
  /\ \E w \in Workers : InRemote(w)

\* ---------------------------------------------------------------------
\* An exception that leaves process_object
\* ---------------------------------------------------------------------
\* main is past the loop over as_completed
PastCollect ==
  mainpc \in {"finally", "finally_save", "shutdown", "final", "final_save",
              "summary", "done", "raised"}

NothingProcessed ==
  /\ queue = <<>>
  /\ \A n \in Names : fut[n] = "new" /\ probes[n] = 0 /\ submits[n] = 0
  /\ \A w \in Workers : wpc[w] = "idle"

\* main is past the listing loop
ListingOver ==
  mainpc \in {"submit", "collect", "finally", "finally_save", "shutdown",
              "final", "final_save", "summary", "done"}

\* the number of the page that starts after k names
PageAfter(k) == k \div MaxPage + 1

\* C19: the listing loop requests page after page, each request starting at
\* the token of the response before it, and stops at the first response
\* without a token; all_objects is then the concatenation of all pages in
\* order, every name of the source exactly once, and nothing is submitted or
\* processed while the loop runs.
C19_EnumerationComplete ==
  /\ [](/\ mainpc = "list" => NothingProcessed
        /\ mainpc # "crashed" =>
             (Len(all_objects) <= source /\ all_objects = Interval(1, Len(all_objects)))
        /\ (ListingOver \/ (mainpc # "crashed" /\ ~NothingProcessed)) =>
             all_objects = Interval(1, source))
  /\ [][(all_objects' # all_objects /\ mainpc' # "crashed") =>
          /\ mainpc = "list"
          /\ all_objects' = all_objects \o PageObjects(PageAfter(Len(all_objects)))
          /\ IF Len(all_objects') < source
               THEN mainpc' = "list" /\ next_start' = PageAfter(Len(all_objects'))
               ELSE mainpc' = "submit"
       ]_vars

\* the listing took more than one request and is complete
C19_Witness ==
  /\ mainpc = "submit"
  /\ next_start # 0
  /\ Len(all_objects) = NumObjects
  /\ Len(all_objects) > MaxPage

\* ---------------------------------------------------------------------
\* Frame of the updates of SyncState
\* ---------------------------------------------------------------------
\* worker w is at an assignment to state[object_name] for object n
Updating(w, n) ==
  wobj[w] = n /\ wpc[w] \in {"set_exists", "set_headfail", "set_done", "set_failed"}

\* C20: a record changes only by the update of a worker that processes that
\* very object, which leaves every other record as it is; nothing in a run
\* removes a record from the mapping or from the state file; so the record
\* of an object that is not in the listing stays as loaded and is counted
\* in the summary.
C20_WorkerFrame ==
  /\ [](\A n \in Names :
          (n \notin Listed /\ mainpc # "crashed") =>
            /\ StateGet(state, n) = Prior(n)
            /\ n \in DOMAIN loaded => n \in DOMAIN state
            /\ writes[n] = 0 /\ probes[n] = 0)
  /\ [](mainpc = "done" =>
          /\ DOMAIN loaded \subseteq DOMAIN state
          /\ summary.done + summary.failed = Cardinality(DOMAIN state))
  /\ [][\A n \in Names :
          /\ (n \in DOMAIN state /\ run' = run /\ mainpc' # "crashed") =>
               n \in DOMAIN state'
          /\ (StateGet(state', n) # StateGet(state, n) /\ run' = run /\ mainpc' # "crashed") =>
               /\ \E w \in Workers : Updating(w, n)
               /\ \A m \in Names \ {n} : StateGet(state', m) = StateGet(state, m)
          /\ (file.exists /\ n \in DOMAIN file.data) =>
               (file'.exists /\ n \in DOMAIN file'.data)
       ]_vars

\* a run over the record of an object no longer listed has ended; the
\* record is there as loaded, beside the records of the listed objects, and
\* the summary counts it
C20_Witness ==
  /\ mainpc = "done"
  /\ StaleName \notin Listed
  /\ StaleName \in DOMAIN state
  /\ state[StaleName] = Prior(StaleName)
  /\ Listed \subseteq DOMAIN state
  /\ summary.done + summary.failed = source + 1

====
